---------------------------- MODULE Spec2Model ----------------------------
(***************************************************************************)
(* Model of parselog.py: the echo matcher, the telemetry correlator, the   *)
(* pass segmenter, the pass statistics (center drift), the track           *)
(* extractor and the exporter, run in the order main() runs them.          *)
(*                                                                         *)
(* Time is an integer number of seconds (the logs have second resolution). *)
(* A message is a tuple of one-character strings, so that the callsign     *)
(* test is a real substring search.  A dictionary is a record; the test    *)
(* 'pycom' in item is a test on the record's DOMAIN.                       *)
(***************************************************************************)
EXTENDS Integers, Sequences, FiniteSets, TLC

VARIABLES
    tx_entries,         \* main: tx_entries (load_wsjt_entries, 'Tx')
    rx_entries,         \* main: rx_entries (load_wsjt_entries, 'Rx')
    all_pycom_entries,  \* main: all_pycom_entries (parse_pycom_log, sorted by ts)
    echoes,             \* main: echoes
    combined,           \* main: combined
    passes,             \* main: passes
    pass_num,           \* main: i, the 1-based index of the pass being processed
    stats,              \* main: stats of the pass being processed
    track_data,         \* main: track_data of the pass being processed
    reported,           \* main: the (sat_name, start_time) printed per pass
    base_name,          \* export_pass: base_name of the last call
    files,              \* the files of OUTPUT_DIR: name -> content
    pc                  \* main's position

vars == <<tx_entries, rx_entries, all_pycom_entries, echoes, combined, passes,
          pass_num, stats, track_data, reported, base_name, files, pc>>

-----------------------------------------------------------------------------
(* Program constants, in seconds.                                          *)

TIME_TOLERANCE == 1
MAX_TIME_DIFF_FOR_MATCH == 5
MAX_GAP_BETWEEN_ECHOES == 1800
PASS_MARGIN == 600

\* The callsign marker of find_echoes, 'M0SNZ'.
CALLSIGN == <<"M", "0", "S", "N", "Z">>

\* A value that may be None is a sequence: None is the empty one, and a
\* value x that is there is Some(x).
None == <<>>
Some(x) == <<x>>

Abs(x) == IF x < 0 THEN -x ELSE x

\* The bounds of the model: the longest input lists.
MaxTx == 2
MaxRx == 2
MaxPycom == 3
MaxPassTx == 3

-----------------------------------------------------------------------------
(* Timestamps.  parse_wsjt_line keeps the text of a timestamp (ts_str,     *)
(* 'YYMMDD_HHMMSS') beside the datetime made from it; the text is modelled *)
(* by its fields, the date as a day number.                                *)

TsStr(ts) ==
    [day |-> ts \div 86400, hh |-> (ts % 86400) \div 3600,
     mi |-> (ts % 3600) \div 60, ss |-> ts % 60]

\* One parsed line of ALL.TXT.
WsjtEntry(ts, freq, mode, snr, dt, f, msg) ==
    [ts |-> ts, ts_str |-> TsStr(ts), freq |-> freq, mode |-> mode,
     snr |-> snr, dt |-> dt, f |-> f, msg |-> msg]

\* Python's "needle in text" on strings.
Contains(text, needle) ==
    \E i \in 1..(Len(text) - Len(needle) + 1) :
        SubSeq(text, i, i + Len(needle) - 1) = needle

\* sorted(seq, key=lambda x: x['ts']): stable, so equal keys keep their order.
RECURSIVE InsertByTs(_, _)
InsertByTs(sorted, e) ==
    IF sorted = <<>> THEN <<e>>
    ELSE IF sorted[Len(sorted)].ts <= e.ts THEN Append(sorted, e)
    ELSE Append(InsertByTs(SubSeq(sorted, 1, Len(sorted) - 1), e),
                sorted[Len(sorted)])

RECURSIVE SortedByTs(_)
SortedByTs(seq) ==
    IF seq = <<>> THEN <<>>
    ELSE InsertByTs(SortedByTs(SubSeq(seq, 1, Len(seq) - 1)), seq[Len(seq)])

-----------------------------------------------------------------------------
(* find_echoes                                                             *)

\* As Qualifies with the abs() of the time difference forgotten.
QualifiesNoAbs(rx, tx) ==
    ~ (\/ rx.mode # tx.mode
       \/ rx.msg # tx.msg
       \/ (rx.ts - tx.ts) > TIME_TOLERANCE
       \/ rx.freq = tx.freq
       \/ ~ Contains(rx.msg, CALLSIGN))

\* The condition under which the inner loop does not 'continue'.
Qualifies(rx, tx) ==
    ~ (\/ rx.mode # tx.mode
       \/ rx.msg # tx.msg
       \/ Abs(rx.ts - tx.ts) > TIME_TOLERANCE
       \/ rx.freq = tx.freq
       \/ ~ Contains(rx.msg, CALLSIGN))

MakeEcho(tx, rx) ==
    [ts |-> tx.ts, ts_str |-> tx.ts_str, tx_freq |-> tx.freq,
     tx_offset |-> tx.f, rx_freq |-> rx.freq, rx_offset |-> rx.f,
     dt |-> rx.dt, snr |-> rx.snr, message |-> tx.msg]

\* As ScanRx without the 'break': every qualifying record appends an echo.
RECURSIVE ScanRxNoBreak(_, _, _)
ScanRxNoBreak(tx, rxs, k) ==
    IF k > Len(rxs) THEN <<>>
    ELSE IF Qualifies(rxs[k], tx)
         THEN <<MakeEcho(tx, rxs[k])>> \o ScanRxNoBreak(tx, rxs, k + 1)
    ELSE ScanRxNoBreak(tx, rxs, k + 1)

\* The inner loop from reception record k on: the echo of the first
\* qualifying record (then 'break'), or nothing.
RECURSIVE ScanRx(_, _, _)
ScanRx(tx, rxs, k) ==
    IF k > Len(rxs) THEN <<>>
    ELSE IF Qualifies(rxs[k], tx) THEN <<MakeEcho(tx, rxs[k])>>
    ELSE ScanRx(tx, rxs, k + 1)

\* The outer loop from transmission record j on.
RECURSIVE EchoLoop(_, _, _)
EchoLoop(txs, rxs, j) ==
    IF j > Len(txs) THEN <<>>
    ELSE ScanRx(txs[j], rxs, 1) \o EchoLoop(txs, rxs, j + 1)

find_echoes(txs, rxs) == SortedByTs(EchoLoop(txs, rxs, 1))

-----------------------------------------------------------------------------
(* parse_pycom_log's records and match_echo_to_pycom                       *)

\* One parsed line of pycom.log.  The fields that only pass through to the
\* CSV row (the Doppler rates, the tuning offset, RIT) are left out.
PycomEntry(ts, sat, az, el, range_km, main, sub, dop_up, dop_down) ==
    [ts |-> ts, sat |-> sat, az |-> az, el |-> el, range_km |-> range_km,
     main |-> main, sub |-> sub, dop_up |-> dop_up, dop_down |-> dop_down]

\* As MinScan, keeping the last of equally near samples.
RECURSIVE MinScanLast(_, _, _, _)
MinScanLast(entries, ts, k, best) ==
    IF k > Len(entries) THEN best
    ELSE IF Abs(entries[k].ts - ts) <= Abs(entries[best].ts - ts)
         THEN MinScanLast(entries, ts, k + 1, k)
    ELSE MinScanLast(entries, ts, k + 1, best)

\* min(pycom_entries, key=...): the index of the first sample with the
\* least key, by a scan from sample k on with the least so far at best.
RECURSIVE MinScan(_, _, _, _)
MinScan(entries, ts, k, best) ==
    IF k > Len(entries) THEN best
    ELSE IF Abs(entries[k].ts - ts) < Abs(entries[best].ts - ts)
         THEN MinScan(entries, ts, k + 1, k)
    ELSE MinScan(entries, ts, k + 1, best)

\* As match_echo_to_pycom with <= for < in the threshold test.
MatchInclusive(echo, pycom_entries) ==
    IF pycom_entries = <<>> THEN <<None, None>>
    ELSE LET closest == pycom_entries[MinScan(pycom_entries, echo.ts, 2, 1)]
             time_diff == Abs(closest.ts - echo.ts)
         IN  IF time_diff <= MAX_TIME_DIFF_FOR_MATCH
             THEN <<Some(closest), Some(time_diff)>> ELSE <<None, None>>

match_echo_to_pycom(echo, pycom_entries) ==
    IF pycom_entries = <<>> THEN <<None, None>>
    ELSE LET closest == pycom_entries[MinScan(pycom_entries, echo.ts, 2, 1)]
             time_diff == Abs(closest.ts - echo.ts)
         IN  IF time_diff < MAX_TIME_DIFF_FOR_MATCH
             THEN <<Some(closest), Some(time_diff)>> ELSE <<None, None>>

\* main's loop over the echoes: one item of combined.
CombineEcho(echo, pycom_entries) ==
    LET m == match_echo_to_pycom(echo, pycom_entries)
    IN  IF m[1] # None
        THEN [echo |-> echo, pycom |-> m[1][1], time_diff |-> m[2][1]]
        ELSE [echo |-> echo]

HasPycom(item) == "pycom" \in DOMAIN item

-----------------------------------------------------------------------------
(* group_by_pass                                                           *)

\* As Continues without the satellite test.
ContinuesOnGapOnly(prev, curr) ==
    (curr.echo.ts - prev.echo.ts) <= MAX_GAP_BETWEEN_ECHOES

\* As Continues with < for <= in the gap test.
ContinuesStrictGap(prev, curr) ==
    LET time_gap_ok == (curr.echo.ts - prev.echo.ts) < MAX_GAP_BETWEEN_ECHOES
    IN  IF HasPycom(prev) /\ HasPycom(curr)
        THEN prev.pycom.sat = curr.pycom.sat /\ time_gap_ok
        ELSE time_gap_ok

\* Whether curr is appended to the pass of prev.
Continues(prev, curr) ==
    LET prev_has_pycom == HasPycom(prev)
        curr_has_pycom == HasPycom(curr)
        time_gap_ok == (curr.echo.ts - prev.echo.ts) <= MAX_GAP_BETWEEN_ECHOES
    IN  IF prev_has_pycom /\ curr_has_pycom
        THEN LET same_sat == prev.pycom.sat = curr.pycom.sat
             IN  same_sat /\ time_gap_ok
        ELSE time_gap_ok

\* The loop over zip(combined_echoes, combined_echoes[1:]) from the pair
\* (k - 1, k) on, then the append of the last pass.
RECURSIVE GroupLoop(_, _, _, _)
GroupLoop(ce, k, done, current_pass) ==
    IF k > Len(ce) THEN Append(done, current_pass)
    ELSE IF Continues(ce[k - 1], ce[k])
         THEN GroupLoop(ce, k + 1, done, Append(current_pass, ce[k]))
    ELSE GroupLoop(ce, k + 1, Append(done, current_pass), <<ce[k]>>)

\* As GroupLoop without the append of the last pass.
RECURSIVE GroupLoopNoLast(_, _, _, _)
GroupLoopNoLast(ce, k, done, current_pass) ==
    IF k > Len(ce) THEN done
    ELSE IF Continues(ce[k - 1], ce[k])
         THEN GroupLoopNoLast(ce, k + 1, done, Append(current_pass, ce[k]))
    ELSE GroupLoopNoLast(ce, k + 1, Append(done, current_pass), <<ce[k]>>)

\* As group_by_pass, losing the pass that is open when the loop ends.
GroupLosingLast(combined_echoes) ==
    IF combined_echoes = <<>> THEN <<>>
    ELSE GroupLoopNoLast(combined_echoes, 2, <<>>, <<combined_echoes[1]>>)

group_by_pass(combined_echoes) ==
    IF combined_echoes = <<>> THEN <<>>
    ELSE GroupLoop(combined_echoes, 2, <<>>, <<combined_echoes[1]>>)

-----------------------------------------------------------------------------
(* calculate_pass_stats                                                    *)

\* [item for item in pass_group if 'pycom' in item]
RECURSIVE ValidItems(_)
ValidItems(pass_group) ==
    IF pass_group = <<>> THEN <<>>
    ELSE (IF HasPycom(Head(pass_group)) THEN <<Head(pass_group)>> ELSE <<>>)
            \o ValidItems(Tail(pass_group))

\* round(n / 2) for an integer n: Python rounds a half to the even
\* neighbour.
RoundHalf(n) ==
    IF n % 2 = 0 THEN n \div 2
    ELSE LET q == (n - 1) \div 2
         IN  IF q % 2 = 0 THEN q ELSE q + 1

\* main + rx_offset + sub - tx_offset of one item.
Drift(item) ==
    item.pycom.main + item.echo.rx_offset + item.pycom.sub
        - item.echo.tx_offset

MinOf(q) == CHOOSE x \in {q[i] : i \in 1..Len(q)} :
                \A i \in 1..Len(q) : x <= q[i]
MaxOf(q) == CHOOSE x \in {q[i] : i \in 1..Len(q)} :
                \A i \in 1..Len(q) : x >= q[i]

\* As CenterDrift, with min_drift and max_drift the least and the greatest
\* drift of the valid members.
CenterDriftMinMax(pass_group, valid_items) ==
    LET drifts == [i \in 1..Len(valid_items) |-> Drift(valid_items[i])]
    IN  RoundHalf(MinOf(drifts) + MaxOf(drifts))

\* min_drift, max_drift and center_drift.
CenterDrift(pass_group, valid_items) ==
    LET min_drift == Drift(valid_items[1])
        max_drift == Drift(valid_items[Len(valid_items)])
    IN  RoundHalf(min_drift + max_drift)

\* The statistics that are means or standard deviations are floats and are
\* left out; the counts, the integer extremes and center_drift are kept.
calculate_pass_stats(pass_group) ==
    IF pass_group = <<>> THEN <<>>
    ELSE
    LET valid_items == ValidItems(pass_group)
        num_echoes == Len(pass_group)
        num_with_sat == Len(valid_items)
        snrs == [i \in 1..num_with_sat |-> valid_items[i].echo.snr]
        total_freqs == [i \in 1..num_with_sat |->
                           valid_items[i].pycom.main + valid_items[i].pycom.sub]
    IN  IF num_with_sat = 0
        THEN [num_echoes |-> num_echoes,
              note |-> "No satellite data available",
              center_drift |-> 0]
        ELSE [num_echoes |-> num_echoes,
              num_with_sat |-> num_with_sat,
              snr_min_db |-> MinOf(snrs),
              snr_max_db |-> MaxOf(snrs),
              total_freq_min_hz |-> MinOf(total_freqs),
              total_freq_max_hz |-> MaxOf(total_freqs),
              center_drift |-> CenterDrift(pass_group, valid_items)]

-----------------------------------------------------------------------------
(* extract_full_pass_track                                                 *)

\* valid_items.sort(key=lambda x: x['echo']['ts']): stable.
RECURSIVE InsertByEchoTs(_, _)
InsertByEchoTs(sorted, e) ==
    IF sorted = <<>> THEN <<e>>
    ELSE IF sorted[Len(sorted)].echo.ts <= e.echo.ts THEN Append(sorted, e)
    ELSE Append(InsertByEchoTs(SubSeq(sorted, 1, Len(sorted) - 1), e),
                sorted[Len(sorted)])

RECURSIVE SortedByEchoTs(_)
SortedByEchoTs(seq) ==
    IF seq = <<>> THEN <<>>
    ELSE InsertByEchoTs(SortedByEchoTs(SubSeq(seq, 1, Len(seq) - 1)),
                        seq[Len(seq)])

Max(a, b) == IF a >= b THEN a ELSE b

\* One element of track_points.
TrackPoint(p) ==
    <<p.az, Max(p.el, 0), p.range_km, p.main, p.sub, p.dop_up, p.dop_down>>

\* As TrackFilter, dropping the samples below the horizon.
RECURSIVE TrackFilterAboveHorizon(_, _, _, _)
TrackFilterAboveHorizon(entries, sat_name, window_start, window_end) ==
    IF entries = <<>> THEN <<>>
    ELSE LET p == Head(entries)
         IN  (IF /\ p.sat = sat_name
                 /\ window_start <= p.ts /\ p.ts <= window_end
                 /\ p.el >= 0
              THEN <<TrackPoint(p)>> ELSE <<>>)
             \o TrackFilterAboveHorizon(Tail(entries), sat_name,
                                        window_start, window_end)

\* The list comprehension that builds track_points.
RECURSIVE TrackFilter(_, _, _, _)
TrackFilter(entries, sat_name, window_start, window_end) ==
    IF entries = <<>> THEN <<>>
    ELSE LET p == Head(entries)
         IN  (IF p.sat = sat_name /\ window_start <= p.ts /\ p.ts <= window_end
              THEN <<TrackPoint(p)>> ELSE <<>>)
             \o TrackFilter(Tail(entries), sat_name, window_start, window_end)

NoTrack == <<None, None, None, None>>

extract_full_pass_track(pass_group, pycom_entries) ==
    LET valid_items == SortedByEchoTs(ValidItems(pass_group))
    IN  IF valid_items = <<>> THEN NoTrack
        ELSE
        LET sat_name == valid_items[1].pycom.sat
            start_echo == valid_items[1].echo.ts
            end_echo == valid_items[Len(valid_items)].echo.ts
            window_start == start_echo - PASS_MARGIN
            window_end == end_echo + PASS_MARGIN
            track_points == TrackFilter(pycom_entries, sat_name,
                                        window_start, window_end)
        IN  IF Len(track_points) < 2 THEN NoTrack
            ELSE <<Some(track_points), Some(start_echo), Some(end_echo),
                   Some(sat_name)>>

-----------------------------------------------------------------------------
(* export_pass                                                             *)

\* datetime(yy, mm, dd, hh, mi, ss) of the fields of a timestamp's text.
ParseTsStr(ts_str) ==
    ts_str.day * 86400 + ts_str.hh * 3600 + ts_str.mi * 60 + ts_str.ss

\* strftime('%Y%m%d_%H%M%S') and isoformat(): the text of a datetime, by
\* its fields.
FormatTs(dt) ==
    [day |-> dt \div 86400, hh |-> (dt % 86400) \div 3600,
     mi |-> (dt % 3600) \div 60, ss |-> dt % 60]

\* As ExportBaseName with the start time of the first member of the pass.
ExportBaseNameOfFirstMember(pass_group) ==
    LET valid_items == ValidItems(pass_group)
    IN  IF valid_items = <<>> THEN None
        ELSE LET sat_name == valid_items[1].pycom.sat
                 start_dt == ParseTsStr(pass_group[1].echo.ts_str)
             IN  Some(<<FormatTs(start_dt), sat_name>>)

\* The loop that finds base_name: None when no member has telemetry.
ExportBaseName(pass_group) ==
    LET valid_items == ValidItems(pass_group)
    IN  IF valid_items = <<>> THEN None
        ELSE LET item == valid_items[1]
                 sat_name == item.pycom.sat
                 start_dt == ParseTsStr(item.echo.ts_str)
             IN  Some(<<FormatTs(start_dt), sat_name>>)

\* One row of the CSV file.
CsvRow(item, center_drift) ==
    LET e == item.echo
        p == item.pycom
        offset_delta == e.tx_offset - e.rx_offset
        drift == p.main + e.rx_offset + p.sub - e.tx_offset - center_drift
        rd == drift - p.dop_up - p.dop_down
    IN  <<e.ts_str, e.tx_offset, e.rx_offset, offset_delta, e.message,
          e.snr, e.dt, p.sat, p.az, p.el, p.range_km, p.main, p.sub,
          p.main + p.sub, p.dop_up, p.dop_down, item.time_diff, drift, rd>>

\* The rows of the CSV file, one per member with telemetry.
CsvContent(pass_group, center_drift) ==
    LET valid_items == ValidItems(pass_group)
    IN  [i \in 1..Len(valid_items) |-> CsvRow(valid_items[i], center_drift)]

\* track_dict.
JsonContent(sat_name, td) ==
    [sat |-> sat_name,
     start_time |-> FormatTs(td[2][1]),
     end_time |-> FormatTs(td[3][1]),
     points |-> [i \in 1..Len(td[1][1]) |->
                    LET pt == td[1][1][i]
                    IN  [az |-> pt[1], el |-> pt[2], range_km |-> pt[3],
                         uplink |-> pt[5], downlink |-> pt[4],
                         dop_up |-> pt[6], dop_down |-> pt[7]]]]

\* As WriteIfAbsent without the test: open(name, 'w') truncates the file.
WriteAlways(fs, name, content) == (name :> content) @@ fs

\* if not os.path.exists(name): open(name, 'w') and the write.
WriteIfAbsent(fs, name, content) ==
    IF name \in DOMAIN fs THEN fs ELSE (name :> content) @@ fs

\* The files after the CSV export.
ExportCsv(fs, bn, pass_group, center_drift) ==
    WriteIfAbsent(fs, <<bn, "csv">>, CsvContent(pass_group, center_drift))

\* 'if track_data:' holds of every 4-tuple, also of the one of Nones, so
\* track_data[1].isoformat() raises AttributeError when the JSON file is
\* not there and the pass has no track.
ExportRaises(fs, bn, td) ==
    /\ <<bn, "json">> \notin DOMAIN fs
    /\ td[2] = None

\* The files after the JSON export, when it does not raise.
ExportJson(fs, bn, sat_name, td) ==
    IF <<bn, "json">> \in DOMAIN fs THEN fs
    ELSE WriteIfAbsent(fs, <<bn, "json">>, JsonContent(sat_name, td))

\* (files, raised) after export_pass.
export_pass(fs, pass_group, td, center_drift) ==
    LET bname == ExportBaseName(pass_group)
    IN  IF bname = None THEN <<fs, FALSE>>
        ELSE LET bn == bname[1]
                 fs1 == ExportCsv(fs, bn, pass_group, center_drift)
             IN  IF ExportRaises(fs1, bn, td) THEN <<fs1, TRUE>>
                 ELSE <<ExportJson(fs1, bn, bn[2], td), FALSE>>

-----------------------------------------------------------------------------
(* Inputs of the echo matcher.                                             *)

MsgCQ == <<"C", "Q", " ", "M", "0", "S", "N", "Z">>
MsgOther == <<"C", "Q", " ", "G", "4", "A", "B", "C">>

\* The carrier frequencies of the two receivers' logs.
Freqs == {435, 436}

TxSet ==
    {WsjtEntry(11, 435, "FT8", 0, 0, 1500, MsgCQ),
     WsjtEntry(12, 435, "FT8", 0, 0, 1520, MsgCQ),
     WsjtEntry(12, 435, "FT8", 0, 0, 1520, MsgOther)}

\* Reception records around the transmissions: one and two seconds away,
\* on the transmission's frequency and off it, with and without the
\* callsign, and one in another mode.  snr and f tell the records apart.
RxSet ==
    {WsjtEntry(t, fr, "FT8", 0 - t, 1, 1400 + t, m) :
        t \in {10, 12, 13}, fr \in Freqs, m \in {MsgCQ, MsgOther}}
    \cup {WsjtEntry(12, 436, "FT4", -5, 1, 1412, MsgCQ)}

SeqsUpTo(S, n) == UNION {[1..k -> S] : k \in 0..n}

IsSortedByTs(seq) == \A k \in 1..(Len(seq) - 1) : seq[k].ts <= seq[k + 1].ts

-----------------------------------------------------------------------------
(* main, up to the echoes.                                                 *)

InitEchoes ==
    /\ tx_entries \in SeqsUpTo(TxSet, MaxTx)
    /\ rx_entries \in SeqsUpTo(RxSet, MaxRx)
    /\ all_pycom_entries = <<>>
    /\ echoes = <<>>
    /\ combined = <<>>
    /\ passes = <<>>
    /\ pass_num = 0
    /\ stats = [num_echoes |-> 0]
    /\ track_data = <<None, None, None, None>>
    /\ reported = <<>>
    /\ base_name = None
    /\ files = <<>>
    /\ pc = "find_echoes"

\* main: echoes = find_echoes(tx_entries, rx_entries)
FindEchoes ==
    /\ pc = "find_echoes"
    /\ echoes' = find_echoes(tx_entries, rx_entries)
    /\ pc' = "correlate"
    /\ UNCHANGED <<tx_entries, rx_entries, all_pycom_entries, combined, passes,
                   pass_num, stats, track_data, reported, base_name, files>>

NextEchoes == FindEchoes

SpecEchoes == InitEchoes /\ [][NextEchoes]_vars

-----------------------------------------------------------------------------
(* The echo matcher's claims.                                              *)

\* C1's condition on a reception record rx for a transmission record tx.
C1_Match(rx, tx) ==
    /\ rx.mode = tx.mode
    /\ rx.msg = tx.msg
    /\ rx.ts - tx.ts \in (0 - 1)..1
    /\ rx.freq # tx.freq
    /\ \E i \in 1..Len(rx.msg) :
          /\ i + 4 <= Len(rx.msg)
          /\ <<rx.msg[i], rx.msg[i + 1], rx.msg[i + 2], rx.msg[i + 3],
               rx.msg[i + 4]>> = <<"M", "0", "S", "N", "Z">>

C1_Cands(j) ==
    {k \in 1..Len(rx_entries) : C1_Match(rx_entries[k], tx_entries[j])}

C1_First(j) == CHOOSE k \in C1_Cands(j) : \A m \in C1_Cands(j) : k <= m

C1_Expected(j) ==
    LET tx == tx_entries[j]
        rx == rx_entries[C1_First(j)]
    IN  [ts |-> tx.ts, ts_str |-> tx.ts_str, tx_freq |-> tx.freq,
         tx_offset |-> tx.f, rx_freq |-> rx.freq, rx_offset |-> rx.f,
         dt |-> rx.dt, snr |-> rx.snr, message |-> tx.msg]

C1_Matched == {j \in 1..Len(tx_entries) : C1_Cands(j) # {}}

\* C1: find_echoes produces, for every transmission record with a
\* qualifying reception record, exactly one echo, built from the first
\* qualifying reception record in list order, and nothing for the other
\* transmission records; so there are never more echoes than transmissions.
C1_OneEchoPerMatchedTx ==
    pc # "find_echoes" =>
        /\ Len(echoes) = Cardinality(C1_Matched)
        /\ Len(echoes) <= Len(tx_entries)
        /\ \A e \in {echoes[i] : i \in 1..Len(echoes)}
                    \cup {C1_Expected(j) : j \in C1_Matched} :
              Cardinality({i \in 1..Len(echoes) : echoes[i] = e})
                = Cardinality({j \in C1_Matched : C1_Expected(j) = e})

\* A transmission with two different qualifying receptions gave one echo,
\* and another transmission gave none.
C1_Witness ==
    /\ pc # "find_echoes"
    /\ Len(tx_entries) = 2
    /\ Len(echoes) = 1
    /\ \E j \in C1_Matched : \E k \in C1_Cands(j) :
          /\ k # C1_First(j)
          /\ rx_entries[k] # rx_entries[C1_First(j)]

\* The echo e was made from the transmission record tx and the reception
\* record rx.
C10_Parents(e, tx, rx) ==
    /\ e.ts = tx.ts /\ e.ts_str = tx.ts_str /\ e.tx_freq = tx.freq
    /\ e.tx_offset = tx.f /\ e.message = tx.msg
    /\ rx.mode = tx.mode /\ rx.msg = tx.msg
    /\ e.rx_freq = rx.freq /\ e.rx_offset = rx.f
    /\ e.dt = rx.dt /\ e.snr = rx.snr

C10_Within(strict) ==
    pc # "find_echoes" =>
        \A i \in 1..Len(echoes) :
            \E j \in 1..Len(tx_entries), k \in 1..Len(rx_entries) :
                LET dtx == Abs(echoes[i].ts - tx_entries[j].ts)
                    drx == Abs(echoes[i].ts - rx_entries[k].ts)
                IN  /\ C10_Parents(echoes[i], tx_entries[j], rx_entries[k])
                    /\ IF strict THEN dtx < 1 /\ drx < 1
                       ELSE dtx <= 1 /\ drx <= 1

\* C10 as amended: every echo's timestamp is within the tolerance,
\* inclusive, of the timestamps of both records it was made from: at most
\* 1 second away.
C10_WithinTolerance == C10_Within(FALSE)

\* C10 as stated: every echo's timestamp is strictly within the tolerance
\* (less than 1 second away) of the timestamps of both records it was made
\* from.
C10_StrictlyWithinTolerance == C10_Within(TRUE)

\* An echo whose reception record is exactly one second from it.
C10_Witness ==
    /\ pc # "find_echoes"
    /\ \E i \in 1..Len(echoes) :
          /\ \E k \in 1..Len(rx_entries) : \E j \in 1..Len(tx_entries) :
                /\ C10_Parents(echoes[i], tx_entries[j], rx_entries[k])
                /\ Abs(echoes[i].ts - rx_entries[k].ts) = 1
          /\ \A k \in 1..Len(rx_entries) : \A j \in 1..Len(tx_entries) :
                C10_Parents(echoes[i], tx_entries[j], rx_entries[k])
                    => Abs(echoes[i].ts - rx_entries[k].ts) = 1

-----------------------------------------------------------------------------
(* main, from the echoes to combined.                                      *)

\* The reception record that echoes a transmission record: the same
\* message and mode on the other receiver, heard d seconds later.
EchoRx(tx, d) ==
    WsjtEntry(tx.ts + d, 436, tx.mode, -12, 1, tx.f + 40 + (tx.ts % 3),
              tx.msg)

\* The telemetry of a satellite at a time: one satellite is at one place
\* at one time, so the fields follow from (ts, sat).
Telemetry(ts, sat) ==
    PycomEntry(ts, sat, ts % 360, (ts % 7) - 2, 1000 + (ts % 50),
               IF sat = "AO-7" THEN 4000 + (ts % 11) ELSE 5000 + (ts % 13),
               IF sat = "AO-7" THEN 2000 - (ts % 5) ELSE 1000 - (ts % 3),
               30 - (ts % 9), (ts % 9) - 20)

Sats == {"AO-7", "RS-44"}

SortedSeqsUpTo(S, n) == {q \in SeqsUpTo(S, n) : IsSortedByTs(q)}

CorrTxSet == {WsjtEntry(t, 435, "FT8", 0, 0, 1500, MsgCQ) : t \in {100, 103}}

\* Samples 5 and 2 seconds before the echoes, between them, and 5 and 7
\* seconds after: 98 and 102 are equally near the echo at 100.
CorrPycomSet == {Telemetry(t, sat) : t \in {95, 98, 102, 108, 110}, sat \in Sats}

InitCorrelate ==
    /\ tx_entries \in SeqsUpTo(CorrTxSet, MaxTx)
    /\ rx_entries = [j \in 1..Len(tx_entries) |-> EchoRx(tx_entries[j], 0)]
    /\ all_pycom_entries \in SortedSeqsUpTo(CorrPycomSet, MaxPycom)
    /\ echoes = find_echoes(tx_entries, rx_entries)
    /\ combined = <<>>
    /\ passes = <<>>
    /\ pass_num = 0
    /\ stats = [num_echoes |-> 0]
    /\ track_data = <<None, None, None, None>>
    /\ reported = <<>>
    /\ base_name = None
    /\ files = <<>>
    /\ pc = "correlate"

\* main: the loop that builds combined.
Correlate ==
    /\ pc = "correlate"
    /\ combined' = [i \in 1..Len(echoes) |->
                       CombineEcho(echoes[i], all_pycom_entries)]
    /\ pc' = "group"
    /\ UNCHANGED <<tx_entries, rx_entries, all_pycom_entries, echoes, passes,
                   pass_num, stats, track_data, reported, base_name, files>>

NextCorrelate == Correlate

SpecCorrelate == InitCorrelate /\ [][NextCorrelate]_vars

-----------------------------------------------------------------------------
(* The telemetry correlator's claims.                                      *)

C2_Diff(i, k) == Abs(all_pycom_entries[k].ts - echoes[i].ts)

\* The first sample, in list order, of least absolute time difference.
C2_Nearest(i) ==
    CHOOSE k \in 1..Len(all_pycom_entries) :
        /\ \A m \in 1..Len(all_pycom_entries) : C2_Diff(i, k) <= C2_Diff(i, m)
        /\ \A m \in 1..(k - 1) : C2_Diff(i, m) > C2_Diff(i, k)

C2_Matched(i) ==
    /\ all_pycom_entries # <<>>
    /\ C2_Diff(i, C2_Nearest(i)) < 5

\* C2: every echo is combined with the first nearest telemetry sample and
\* its time difference exactly when that difference is less than 5
\* seconds, and with nothing otherwise (also when there is no telemetry);
\* so a combined echo's time difference, when it has one, is below 5.
C2_NearestWithinThreshold ==
    pc = "group" =>
        /\ Len(combined) = Len(echoes)
        /\ \A i \in 1..Len(echoes) :
              /\ combined[i].echo = echoes[i]
              /\ IF C2_Matched(i)
                 THEN /\ DOMAIN combined[i] = {"echo", "pycom", "time_diff"}
                      /\ combined[i].pycom = all_pycom_entries[C2_Nearest(i)]
                      /\ combined[i].time_diff = C2_Diff(i, C2_Nearest(i))
                      /\ combined[i].time_diff < 5
                 ELSE DOMAIN combined[i] = {"echo"}

\* One echo took the first of two different, equally near samples, and
\* another was left without telemetry though its nearest sample is exactly
\* 5 seconds from it.
C2_Witness ==
    /\ pc = "group"
    /\ \E i \in 1..Len(echoes) :
          /\ C2_Matched(i)
          /\ \E m \in 1..Len(all_pycom_entries) :
                /\ m > C2_Nearest(i)
                /\ C2_Diff(i, m) = C2_Diff(i, C2_Nearest(i))
                /\ all_pycom_entries[m] # all_pycom_entries[C2_Nearest(i)]
    /\ \E i \in 1..Len(echoes) :
          /\ all_pycom_entries # <<>>
          /\ C2_Diff(i, C2_Nearest(i)) = 5
          /\ ~ HasPycom(combined[i])

-----------------------------------------------------------------------------
(* main, whole.                                                            *)

\* Transmissions 10 seconds, 30 minutes and 30 minutes and 1 second apart.
PassTxSet ==
    {WsjtEntry(t, 435, "FT8", 0, 0, 1500 + (t % 4), MsgCQ) :
        t \in {1000, 1010, 2810, 2811}}

\* Samples within 5 seconds of the echoes (999 of 1000, 1012 of 1010,
\* 2807 and 2814 of 2810 and 2811), and 10 minutes before the first.
PassPycomSet ==
    {Telemetry(t, "AO-7") : t \in {400, 999, 1012, 2807, 2814}}
    \cup {Telemetry(t, "RS-44") : t \in {999, 1012, 2814}}

Init ==
    /\ tx_entries \in SortedSeqsUpTo(PassTxSet, MaxPassTx)
    /\ rx_entries = [j \in 1..Len(tx_entries) |-> EchoRx(tx_entries[j], 0)]
    /\ all_pycom_entries \in SortedSeqsUpTo(PassPycomSet, MaxPycom)
    /\ echoes = <<>>
    /\ combined = <<>>
    /\ passes = <<>>
    /\ pass_num = 0
    /\ stats = [num_echoes |-> 0]
    /\ track_data = NoTrack
    /\ reported = <<>>
    /\ base_name = None
    /\ files = <<>>
    /\ pc = "find_echoes"

\* main: passes = group_by_pass(combined)
GroupByPass ==
    /\ pc = "group"
    /\ passes' = group_by_pass(combined)
    /\ pass_num' = IF passes' = <<>> THEN 0 ELSE 1
    /\ pc' = IF passes' = <<>> THEN "done" ELSE "report"
    /\ UNCHANGED <<tx_entries, rx_entries, all_pycom_entries, echoes, combined,
                   stats, track_data, reported, base_name, files>>

\* main's loop over the passes, up to the call of export_pass: the
\* identity that is printed, the statistics and the track.
ReportPass ==
    /\ pc = "report"
    /\ LET pass_group == passes[pass_num]
           valid_items == ValidItems(pass_group)
           first_pycom == IF valid_items = <<>> THEN None
                          ELSE Some(valid_items[1].pycom)
           sat_name == IF first_pycom # None THEN first_pycom[1].sat
                       ELSE "Unknown"
           start_time == pass_group[1].echo.ts_str
       IN  /\ reported' = Append(reported, [sat_name |-> sat_name,
                                            start_time |-> start_time,
                                            num_echoes |-> Len(pass_group)])
           /\ stats' = calculate_pass_stats(pass_group)
           /\ track_data' = extract_full_pass_track(pass_group,
                                                    all_pycom_entries)
    /\ pc' = "export"
    /\ UNCHANGED <<tx_entries, rx_entries, all_pycom_entries, echoes, combined,
                   passes, pass_num, base_name, files>>

\* main: export_pass(csv_heading, pass_group, i, track_data,
\* stats['center_drift']), and on to the next pass or to the end; an
\* exception ends the run.
ExportPass ==
    /\ pc = "export"
    /\ LET r == export_pass(files, passes[pass_num], track_data,
                            stats.center_drift)
       IN  /\ files' = r[1]
           /\ base_name' = ExportBaseName(passes[pass_num])
           /\ pc' = IF r[2] THEN "crashed"
                    ELSE IF pass_num = Len(passes) THEN "done"
                    ELSE "report"
           /\ pass_num' = IF r[2] \/ pass_num = Len(passes) THEN pass_num
                          ELSE pass_num + 1
    /\ UNCHANGED <<tx_entries, rx_entries, all_pycom_entries, echoes, combined,
                   passes, stats, track_data, reported>>

Next == FindEchoes \/ Correlate \/ GroupByPass \/ ReportPass \/ ExportPass

Spec == Init /\ [][Next]_vars

-----------------------------------------------------------------------------
(* The pass segmenter's claims.                                            *)

\* group_by_pass has returned.
Grouped == pc \in {"report", "export", "done", "crashed"}

RECURSIVE SumSeq(_)
SumSeq(q) == IF q = <<>> THEN 0 ELSE Head(q) + SumSeq(Tail(q))

\* The number of echoes in the passes before pass i.
C3_Start(i) == SumSeq([m \in 1..(i - 1) |-> Len(passes[m])])

\* The pass that holds the k-th input echo.
C3_PassOf(k) ==
    CHOOSE i \in 1..Len(passes) :
        C3_Start(i) < k /\ k <= C3_Start(i) + Len(passes[i])

C3_Rule(prev, curr) ==
    /\ curr.echo.ts - prev.echo.ts <= 1800
    /\ \/ "pycom" \notin DOMAIN prev
       \/ "pycom" \notin DOMAIN curr
       \/ prev.pycom.sat = curr.pycom.sat

\* C3: two consecutive input echoes are in the same pass exactly when they
\* are at most 30 minutes apart and do not both carry telemetry of
\* different satellites; otherwise the second one starts the next pass.
C3_BoundaryRule ==
    Grouped =>
        /\ SumSeq([m \in 1..Len(passes) |-> Len(passes[m])]) = Len(combined)
        /\ \A k \in 1..(Len(combined) - 1) :
              IF C3_Rule(combined[k], combined[k + 1])
              THEN C3_PassOf(k + 1) = C3_PassOf(k)
              ELSE /\ C3_PassOf(k + 1) = C3_PassOf(k) + 1
                   /\ passes[C3_PassOf(k + 1)][1] = combined[k + 1]

\* Two consecutive echoes with telemetry of different satellites, 10
\* seconds apart, are in different passes, and two echoes exactly 30
\* minutes apart are in the same pass.
C3_Witness ==
    /\ Grouped
    /\ \E k \in 1..(Len(combined) - 1) :
          /\ HasPycom(combined[k]) /\ HasPycom(combined[k + 1])
          /\ combined[k].pycom.sat # combined[k + 1].pycom.sat
          /\ combined[k + 1].echo.ts - combined[k].echo.ts = 10
          /\ C3_PassOf(k + 1) # C3_PassOf(k)
    /\ \E k \in 1..(Len(combined) - 1) :
          /\ combined[k + 1].echo.ts - combined[k].echo.ts = 1800
          /\ C3_PassOf(k + 1) = C3_PassOf(k)

RECURSIVE C4_Concat(_)
C4_Concat(ps) == IF ps = <<>> THEN <<>> ELSE Head(ps) \o C4_Concat(Tail(ps))

\* C4: the passes are non-empty and, one after the other, are the input
\* list; no input gives no pass and one echo gives one pass of one echo.
C4_Partition ==
    Grouped =>
        /\ \A i \in 1..Len(passes) : passes[i] # <<>>
        /\ C4_Concat(passes) = combined
        /\ (combined = <<>> => passes = <<>>)
        /\ (Len(combined) = 1 => Len(passes) = 1 /\ Len(passes[1]) = 1)

\* Three echoes in two passes.
C4_Witness ==
    /\ Grouped
    /\ Len(combined) = 3
    /\ Len(passes) = 2

-----------------------------------------------------------------------------
(* The claims on the statistics and the track of the pass in hand.         *)

\* The pass whose statistics and track main holds.
InHand == passes[pass_num]

\* The places of the members with telemetry in the pass in hand.
ValidPlaces == {k \in 1..Len(InHand) : "pycom" \in DOMAIN InHand[k]}
FirstValid == InHand[CHOOSE k \in ValidPlaces : \A m \in ValidPlaces : k <= m]
LastValid == InHand[CHOOSE k \in ValidPlaces : \A m \in ValidPlaces : k >= m]

C5_Drift(item) ==
    item.pycom.main + item.echo.rx_offset + item.pycom.sub
        - item.echo.tx_offset

\* c is round(n / 2): the nearest integer, the even one of two.
C5_IsRoundOfHalf(c, n) ==
    /\ 2 * c - n \in {0 - 1, 0, 1}
    /\ (n % 2 = 1 => c % 2 = 0)

\* C5: the statistics of a pass without telemetry are the number of
\* echoes, a note and a center drift of 0; the center drift of a pass with
\* telemetry is the rounded mean of the drifts of its first and its last
\* member with telemetry, in time order, whatever the other members are.
C5_CenterDrift ==
    pc = "export" =>
        /\ IsSortedByTs([k \in 1..Len(InHand) |-> InHand[k].echo])
        /\ IF ValidPlaces = {}
           THEN stats = [num_echoes |-> Len(InHand),
                         note |-> "No satellite data available",
                         center_drift |-> 0]
           ELSE C5_IsRoundOfHalf(stats.center_drift,
                                 C5_Drift(FirstValid) + C5_Drift(LastValid))

\* A pass of three members with telemetry, the drift of the one in the
\* middle below both others', and the mean of the two a half.
C5_Witness ==
    /\ pc = "export"
    /\ Len(InHand) = 3
    /\ ValidPlaces = {1, 2, 3}
    /\ C5_Drift(InHand[2]) < C5_Drift(InHand[1])
    /\ C5_Drift(InHand[2]) < C5_Drift(InHand[3])
    /\ (C5_Drift(InHand[1]) + C5_Drift(InHand[3])) % 2 = 1

\* The places in the telemetry list of the samples of the track.
C6_Places ==
    {k \in 1..Len(all_pycom_entries) :
        /\ all_pycom_entries[k].sat = FirstValid.pycom.sat
        /\ all_pycom_entries[k].ts >= FirstValid.echo.ts - 600
        /\ all_pycom_entries[k].ts <= LastValid.echo.ts + 600}

\* The j-th of them in list order.
C6_Nth(j) ==
    CHOOSE k \in C6_Places : Cardinality({m \in C6_Places : m <= k}) = j

\* C6: the track of a pass is made of the samples of the satellite of its
\* first member with telemetry that lie within 10 minutes before that
\* member and 10 minutes after the last member with telemetry, bounds
\* included, in list order, each with its elevation raised to 0 when it is
\* below; there is no track when fewer than 2 samples qualify or no member
\* has telemetry, so a track has at least 2 points.
C6_Track ==
    pc = "export" =>
        IF ValidPlaces = {} \/ Cardinality(C6_Places) < 2
        THEN track_data[1] = None
        ELSE /\ track_data[1] # None
             /\ Len(track_data[1][1]) = Cardinality(C6_Places)
             /\ Len(track_data[1][1]) >= 2
             /\ \A j \in 1..Cardinality(C6_Places) :
                   LET p == all_pycom_entries[C6_Nth(j)]
                       pt == track_data[1][1][j]
                   IN  /\ pt[1] = p.az
                       /\ pt[2] = (IF p.el < 0 THEN 0 ELSE p.el)
                       /\ pt[3] = p.range_km
                       /\ pt[4] = p.main
                       /\ pt[5] = p.sub
                       /\ pt[6] = p.dop_up
                       /\ pt[7] = p.dop_down

\* A track with a point of a sample below the horizon, exactly 10 minutes
\* before the first member with telemetry, while a sample of the same
\* satellite outside the window is not in it.
C6_Witness ==
    /\ pc = "export"
    /\ ValidPlaces # {}
    /\ track_data[1] # None
    /\ \E k \in C6_Places :
          /\ all_pycom_entries[k].el < 0
          /\ all_pycom_entries[k].ts = FirstValid.echo.ts - 600
    /\ \E k \in 1..Len(all_pycom_entries) :
          /\ k \notin C6_Places
          /\ all_pycom_entries[k].sat = FirstValid.pycom.sat

-----------------------------------------------------------------------------
(* The end-to-end scenario.                                                *)

PassSizes == [i \in 1..Len(passes) |-> Len(passes[i])]

\* Three transmissions and three receptions, all matching, and telemetry
\* for two of the three echoes only.
C8_Scenario ==
    /\ Grouped
    /\ Len(tx_entries) = 3 /\ Len(rx_entries) = 3 /\ Len(echoes) = 3
    /\ Cardinality({i \in 1..3 : HasPycom(combined[i])}) = 2

\* The satellite of the telemetry changes from echo 2 to echo 3.
C8_Switch ==
    /\ HasPycom(combined[2]) /\ HasPycom(combined[3])
    /\ combined[2].pycom.sat # combined[3].pycom.sat

\* C8 as stated: three matching transmissions and receptions, telemetry
\* for two of the echoes only and a change of satellite between echo 2 and
\* echo 3 give exactly two passes, of 2 echoes and of 1.
C8_TwoPasses == (C8_Scenario /\ C8_Switch) => PassSizes = <<2, 1>>

\* C8 as amended: the same when, moreover, echo 2 is at most 30 minutes
\* after echo 1.
C8_TwoPassesWithinGap ==
    (/\ C8_Scenario
     /\ C8_Switch
     /\ echoes[2].ts - echoes[1].ts <= 1800) => PassSizes = <<2, 1>>

\* The scenario with echo 2 within 30 minutes of echo 1, grouped, and the
\* first pass reported.
C8_Witness ==
    /\ C8_Scenario
    /\ C8_Switch
    /\ echoes[2].ts - echoes[1].ts <= 1800
    /\ reported # <<>>

-----------------------------------------------------------------------------
(* The identity of a pass.                                                 *)

C9_Valid(i) == {k \in 1..Len(passes[i]) : "pycom" \in DOMAIN passes[i][k]}
C9_FirstValid(i) ==
    passes[i][CHOOSE k \in C9_Valid(i) : \A m \in C9_Valid(i) : k <= m]

\* The satellite main prints for a pass is that of the first member with
\* telemetry, or "Unknown".
C9_MainSat ==
    \A i \in 1..Len(reported) :
        reported[i].sat_name =
            (IF C9_Valid(i) = {} THEN "Unknown"
             ELSE C9_FirstValid(i).pycom.sat)

\* The stem of the files of the pass exported last is made of the start
\* time and the satellite of its first member with telemetry; there is
\* none when no member has telemetry.
C9_ExportStem ==
    (pc # "export" /\ reported # <<>>) =>
        LET i == Len(reported)
        IN  IF C9_Valid(i) = {} THEN base_name = None
            ELSE /\ base_name # None
                 /\ base_name[1][1] = C9_FirstValid(i).echo.ts_str
                 /\ base_name[1][2] = C9_FirstValid(i).pycom.sat

\* C9 as stated: the satellite and the start time that identify a pass, in
\* what main prints and in the stem of export_pass, are those of the first
\* member with telemetry, and the pass is "Unknown" without one.
C9_IdentityOfFirstValid ==
    /\ C9_MainSat
    /\ C9_ExportStem
    /\ \A i \in 1..Len(reported) :
          C9_Valid(i) # {} =>
              reported[i].start_time = C9_FirstValid(i).echo.ts_str

\* C9 as amended: the satellite main prints and the stem of export_pass
\* are those of the first member with telemetry ("Unknown", and no file,
\* without one), while the start time main prints is that of the first
\* member of the pass, with telemetry or without.
C9_Identity ==
    /\ C9_MainSat
    /\ C9_ExportStem
    /\ \A i \in 1..Len(reported) :
          reported[i].start_time = passes[i][1].echo.ts_str

\* A pass whose first member has no telemetry and whose second has has
\* been reported and exported.
C9_Witness ==
    /\ pc # "export"
    /\ reported # <<>>
    /\ LET i == Len(reported)
       IN  /\ C9_Valid(i) # {}
           /\ 1 \notin C9_Valid(i)
           /\ base_name # None
           /\ <<base_name[1], "csv">> \in DOMAIN files

-----------------------------------------------------------------------------
(* The start and end that go with a track.                                 *)

\* The pass whose track main holds: the one reported last.
C11_Pass == passes[Len(reported)]

C11_Valid == {k \in 1..Len(C11_Pass) : "pycom" \in DOMAIN C11_Pass[k]}

\* The window of that pass: from 10 minutes before its first member with
\* telemetry to 10 minutes after its last.
C11_WindowStart ==
    C11_Pass[CHOOSE k \in C11_Valid : \A m \in C11_Valid : k <= m].echo.ts - 600
C11_WindowEnd ==
    C11_Pass[CHOOSE k \in C11_Valid : \A m \in C11_Valid : k >= m].echo.ts + 600

\* extract_full_pass_track has returned a track for that pass.
C11_HasTrack ==
    /\ pc \in {"export", "report", "done"}
    /\ reported # <<>>
    /\ track_data[1] # None

\* C11: the start and the end that extract_full_pass_track returns with a
\* track are the start and the end of the window that filtered the points,
\* and they are the start_time and end_time of the trajectory document
\* that export_pass writes for the pass.
C11_ReturnsWindowBounds ==
    C11_HasTrack =>
        /\ track_data[2] = Some(C11_WindowStart)
        /\ track_data[3] = Some(C11_WindowEnd)
        /\ pc # "export" =>
              /\ base_name # None
              /\ <<base_name[1], "json">> \in DOMAIN files
              /\ files[<<base_name[1], "json">>].start_time
                    = FormatTs(C11_WindowStart)
              /\ files[<<base_name[1], "json">>].end_time
                    = FormatTs(C11_WindowEnd)

-----------------------------------------------------------------------------
(* The satellites of a pass.                                               *)

\* The satellites of the members with telemetry of pass i.
C12_Sats(i) ==
    {passes[i][k].pycom.sat :
        k \in {m \in 1..Len(passes[i]) : "pycom" \in DOMAIN passes[i][m]}}

\* C12: in every pass that group_by_pass returns for a time-sorted list,
\* all the members with telemetry carry the same satellite, also when
\* members without telemetry lie between them.
C12_OneSatellitePerPass ==
    (Grouped /\ IsSortedByTs([k \in 1..Len(combined) |-> combined[k].echo])) =>
        \A i \in 1..Len(passes) : Cardinality(C12_Sats(i)) <= 1

-----------------------------------------------------------------------------
(* Runs after the first: the files stay, the logs have grown.              *)

RerunTxSet ==
    {WsjtEntry(t, 435, "FT8", 0, 0, 1500 + (t % 4), MsgCQ) : t \in {1000, 1010}}

RerunPycomSet ==
    {Telemetry(t, "AO-7") : t \in {400, 999, 1012}}
    \cup {Telemetry(999, "RS-44")}

IsPrefix(q, r) == Len(q) <= Len(r) /\ SubSeq(r, 1, Len(q)) = q

InitRerun ==
    /\ tx_entries \in SortedSeqsUpTo(RerunTxSet, MaxTx)
    /\ rx_entries = [j \in 1..Len(tx_entries) |-> EchoRx(tx_entries[j], 0)]
    /\ all_pycom_entries \in SortedSeqsUpTo(RerunPycomSet, MaxPycom)
    /\ echoes = <<>>
    /\ combined = <<>>
    /\ passes = <<>>
    /\ pass_num = 0
    /\ stats = [num_echoes |-> 0]
    /\ track_data = NoTrack
    /\ reported = <<>>
    /\ base_name = None
    /\ files = <<>>
    /\ pc = "find_echoes"

\* The program is run again, after it ended or raised: the logs are the
\* ones of the run before or longer ones, and OUTPUT_DIR is as it was left.
Rerun ==
    /\ pc \in {"done", "crashed"}
    /\ tx_entries' \in {q \in SortedSeqsUpTo(RerunTxSet, MaxTx) :
                           IsPrefix(tx_entries, q)}
    /\ rx_entries' = [j \in 1..Len(tx_entries') |-> EchoRx(tx_entries'[j], 0)]
    /\ all_pycom_entries' \in
          {q \in SortedSeqsUpTo(RerunPycomSet, MaxPycom) :
              \A p \in {all_pycom_entries[k] : k \in 1..Len(all_pycom_entries)} :
                  Cardinality({k \in 1..Len(q) : q[k] = p})
                    >= Cardinality({k \in 1..Len(all_pycom_entries) :
                                       all_pycom_entries[k] = p})}
    /\ echoes' = <<>>
    /\ combined' = <<>>
    /\ passes' = <<>>
    /\ pass_num' = 0
    /\ stats' = [num_echoes |-> 0]
    /\ track_data' = NoTrack
    /\ reported' = <<>>
    /\ base_name' = None
    /\ pc' = "find_echoes"
    /\ UNCHANGED files

NextRerun ==
    FindEchoes \/ Correlate \/ GroupByPass \/ ReportPass \/ ExportPass \/ Rerun

SpecRerun == InitRerun /\ [][NextRerun]_vars

\* C7: no step changes the content of a file that is there: export_pass
\* writes a CSV or JSON file only when there is none of its name, in one
\* run and from run to run.
C7_NeverOverwrites ==
    [][\A n \in DOMAIN files : n \in DOMAIN files' /\ files'[n] = files[n]]_vars

\* export_pass has found the CSV file of the stem of its pass there, with
\* other rows than the ones of its pass, and has left it.
C7_Witness ==
    /\ pc # "export"
    /\ reported # <<>>
    /\ base_name # None
    /\ <<base_name[1], "csv">> \in DOMAIN files
    /\ files[<<base_name[1], "csv">>]
         # CsvContent(passes[Len(reported)], stats.center_drift)

=============================================================================
